---- MODULE Spec2Model ----
(***************************************************************************)
(* A model of the LL(1) parser generator of src/src/python/syntax.py:      *)
(* the classes Symbol, Terminal, NonTerminal, Production and               *)
(* ParserGenerator.  ParserGenerator.__init__ calls read_file, which runs  *)
(* process_symbol, process_production, process_root_symbol,                *)
(* process_left_recursion, process_first_follow, verify and                *)
(* generate_parsing_table, in that order.  A raised exception ends the     *)
(* construction: the model records it in err and moves pc to "failed".     *)
(*                                                                         *)
(* Objects.  A symbol object is a record [name, kind, born].  Symbol       *)
(* defines __eq__ and __hash__ on the name alone, so every ==, `in`, set   *)
(* and dict operation of the code compares names; the model does the same  *)
(* (SymEq, SymIn, SymAdd, PEq, PIn, PAdd, PRemove).  The fields of a       *)
(* NonTerminal belong to the object, not to the name: `born` tells the     *)
(* object created by process_symbol from the one created by                *)
(* get_new_symbol, which may carry the same name.                          *)
(*                                                                         *)
(* Iteration over a Python set has no order the program controls: every    *)
(* `for x in <set>` of the code is a choice (\E) of the next element or of *)
(* an order of the set.                                                    *)
(***************************************************************************)
EXTENDS Integers, Sequences, FiniteSets, TLC

VARIABLES
    line_list,          \* read_file: the filtered lines of the grammar file
    pc,                 \* position of read_file in its sequence of stages
    err,                \* the exception that ended the construction, or "none"
    line_idx,           \* process_production: index of the next line
    current_nt,         \* process_production: current_nt
    has_body,           \* process_production: has_body
    symbol_dict,        \* ParserGenerator.symbol_dict
    terminal_set,       \* ParserGenerator.terminal_set
    non_terminal_set,   \* ParserGenerator.non_terminal_set
    production_set,     \* ParserGenerator.production_set
    root_symbol,        \* ParserGenerator.root_symbol
    parsing_table,      \* ParserGenerator.parsing_table
    nt,                 \* the fields of every NonTerminal object
    prod_first,         \* Production.first_set of every Production object
    todo,               \* the elements a running for-loop over a set has not visited
    count_list,         \* process_first_follow: count_list
    test_str,           \* demo: the token sequence, END last
    demo_index,              \* demo: demo_index of the current token (from 0)
    stack               \* demo: the stack, its top last

vars == <<line_list, pc, err, line_idx, current_nt, has_body, symbol_dict,
          terminal_set, non_terminal_set, production_set, root_symbol,
          parsing_table, nt, prod_first, todo, count_list,
          test_str, demo_index, stack>>

----------------------------------------------------------------------------
(* Bounds of the explored inputs *)

\* most production bodies of a grammar file
MaxProds == 3
\* most symbols over all production bodies of a grammar file
MaxSyms == 5
\* most symbols of one production body
MaxRhs == 2

----------------------------------------------------------------------------
(* class Symbol, Terminal, NonTerminal *)

EMPTY_SYMBOL_NAME == "T_"
END_SYMBOL_NAME == "T_EOF"

Terminal(name) == [name |-> name, kind |-> "T", born |-> "load"]
NonTerminal(name) == [name |-> name, kind |-> "NT", born |-> "load"]
\* the value None of root_symbol and current_nt
NoneSymbol == [name |-> "", kind |-> "None", born |-> "load"]

get_empty_symbol == Terminal(EMPTY_SYMBOL_NAME)
get_end_symbol == Terminal(END_SYMBOL_NAME)

is_terminal(s) == s.kind = "T"
is_non_terminal(s) == s.kind = "NT"

\* Symbol.__eq__, and the membership and insertion of a Python set of symbols
SymEq(x, y) == x.name = y.name
SymIn(x, S) == \E y \in S : SymEq(x, y)
SymAdd(S, x) == IF SymIn(x, S) THEN S ELSE S \cup {x}

\* NonTerminal.__init__: the fields of a new object
NewFields ==
    [rhs_set |-> {}, lhs_set |-> {}, first_set |-> {}, follow_set |-> {},
     first_rhs_set |-> [built |-> FALSE, set |-> {}],
     new_name_index |-> 1, result_available |-> FALSE]

\* f extended (or overwritten) at key k
Put(f, k, v) == [x \in DOMAIN f \cup {k} |-> IF x = k THEN v ELSE f[x]]

----------------------------------------------------------------------------
(* The grammar files explored: the non-terminals S, A, B are declared in   *)
(* this order (a prefix of them), each followed by at least one body line  *)
(* over the declared names, the terminal a and the empty symbol T_.        *)

NTNames == <<"S", "A", "B">>
TermNames == {"a", EMPTY_SYMBOL_NAME}

\* a line of line_list: colon says that the text ends in ':' and names
\* holds the text before it; otherwise names is line.split()
DeclLine(name) == [colon |-> TRUE, names |-> <<name>>]
BodyLine(names) == [colon |-> FALSE, names |-> names]

NamesOf(n) == {NTNames[i] : i \in 1..n} \cup TermNames

RECURSIVE LenLists(_, _)
\* the lists of at most c body lengths whose sum is at most s
LenLists(c, s) ==
    IF c <= 0 \/ s <= 0 THEN {<<>>}
    ELSE {<<>>} \cup
         UNION {{<<k>> \o r : r \in LenLists(c - 1, s - k)}
                : k \in 1..(IF s < MaxRhs THEN s ELSE MaxRhs)}

RECURSIVE Sum(_)
Sum(ks) == IF ks = <<>> THEN 0 ELSE Head(ks) + Sum(Tail(ks))

RECURSIVE Shapes(_, _, _, _)
\* for the non-terminals i..n, the body lengths of each
Shapes(i, n, c, s) ==
    IF i > n THEN {<<>>}
    ELSE UNION {{<<ks>> \o r : r \in Shapes(i + 1, n, c - Len(ks), s - Sum(ks))}
                : ks \in LenLists(c - (n - i), s - (n - i)) \ {<<>>}}

RECURSIVE ShapeSum(_)
ShapeSum(shape) ==
    IF shape = <<>> THEN 0 ELSE Sum(Head(shape)) + ShapeSum(Tail(shape))

RECURSIVE BodyLines(_, _, _)
\* the body lines of lengths ks, their names taken from syms after offset
BodyLines(ks, syms, offset) ==
    IF ks = <<>> THEN <<>>
    ELSE <<BodyLine([j \in 1..Head(ks) |-> syms[offset + j]])>>
         \o BodyLines(Tail(ks), syms, offset + Head(ks))

RECURSIVE Flatten(_, _, _, _)
Flatten(shape, i, syms, offset) ==
    IF i > Len(shape) THEN <<>>
    ELSE <<DeclLine(NTNames[i])>>
         \o BodyLines(shape[i], syms, offset)
         \o Flatten(shape, i + 1, syms, offset + Sum(shape[i]))

\* The order of the body lines of one non-terminal and the names of the
\* non-terminals change nothing but names in what the program does, so of
\* the grammars that differ only in these one is explored: the body lines
\* of a non-terminal are listed in the order of BodyCode, and when exactly
\* one non-terminal occurs in no body, it is the first one declared.
NameRank(name) ==
    CHOOSE r \in 1..(Len(NTNames) + 2) :
        \/ r <= Len(NTNames) /\ NTNames[r] = name
        \/ r = Len(NTNames) + 1 /\ name = "a"
        \/ r = Len(NTNames) + 2 /\ name = EMPTY_SYMBOL_NAME

RECURSIVE BodyCode(_, _, _)
BodyCode(names, i, code) ==
    IF i > Len(names) THEN code
    ELSE BodyCode(names, i + 1, code * (Len(NTNames) + 3) + NameRank(names[i]))

Sorted(lines) ==
    \A i \in 1..(Len(lines) - 1) :
        (~lines[i].colon /\ ~lines[i + 1].colon)
            => BodyCode(lines[i].names, 1, 1) <= BodyCode(lines[i + 1].names, 1, 1)

StartFirst(n, syms) ==
    LET unused == {i \in 1..n : \A j \in DOMAIN syms : syms[j] # NTNames[i]}
    IN Cardinality(unused) = 1 => unused = {1}

----------------------------------------------------------------------------
(* ParserGenerator.__init__ *)

Init ==
    /\ \E n \in 1..Len(NTNames) :
          \E shape \in Shapes(1, n, MaxProds, MaxSyms) :
             \E syms \in [1..ShapeSum(shape) -> NamesOf(n)] :
                /\ Sorted(Flatten(shape, 1, syms, 0))
                /\ StartFirst(n, syms)
                /\ line_list = Flatten(shape, 1, syms, 0)
    /\ pc = "process_symbol"
    /\ err = "none"
    /\ line_idx = 1
    /\ current_nt = NoneSymbol
    /\ has_body = TRUE
    /\ symbol_dict = <<>>
    /\ terminal_set = {}
    /\ non_terminal_set = {}
    /\ production_set = {}
    /\ root_symbol = NoneSymbol
    /\ parsing_table = <<>>
    /\ nt = <<>>
    /\ prod_first = <<>>
    /\ todo = {}
    /\ count_list = <<>>
    /\ test_str = <<>>
    /\ demo_index = 0
    /\ stack = <<>>

----------------------------------------------------------------------------
(* ParserGenerator.process_symbol *)

RECURSIVE InDoubtNames(_, _, _, _)
\* the loop over name_list of a body line: in_doubt_set after it
InDoubtNames(names, i, dict, in_doubt) ==
    IF i > Len(names) THEN in_doubt
    ELSE InDoubtNames(names, i + 1, dict,
                      IF names[i] \in DOMAIN dict THEN in_doubt
                      ELSE in_doubt \cup {names[i]})

RECURSIVE SymbolPass(_, _, _)
\* the loop over line_list from line i; st = [dict, nts, in_doubt, err]
SymbolPass(lines, i, st) ==
    IF i > Len(lines) \/ st.err # "none" THEN st
    ELSE LET line == lines[i] IN
         IF line.colon
         THEN LET name == line.names[1] IN
              IF name \in DOMAIN st.dict
              THEN [st EXCEPT !.err = "Duplication definition of non-terminal"]
              ELSE SymbolPass(lines, i + 1,
                       [st EXCEPT !.dict = Put(st.dict, name, NonTerminal(name)),
                                  !.nts = SymAdd(st.nts, NonTerminal(name)),
                                  !.in_doubt = st.in_doubt \ {name}])
         ELSE SymbolPass(lines, i + 1,
                  [st EXCEPT !.in_doubt =
                       InDoubtNames(line.names, 1, st.dict, st.in_doubt)])

ProcessSymbol ==
    /\ pc = "process_symbol"
    /\ LET st == SymbolPass(line_list, 1,
                     [dict |-> <<>>, nts |-> {}, in_doubt |-> {}, err |-> "none"])
       IN
       IF st.err # "none"
       THEN /\ pc' = "failed"
            /\ err' = st.err
            /\ symbol_dict' = st.dict
            /\ non_terminal_set' = st.nts
            /\ nt' = [o \in st.nts |-> NewFields]
            /\ UNCHANGED terminal_set
       ELSE /\ pc' = "process_production"
            /\ err' = "none"
            /\ symbol_dict' =
                   [n \in DOMAIN st.dict \cup st.in_doubt |->
                       IF n \in st.in_doubt THEN Terminal(n) ELSE st.dict[n]]
            /\ terminal_set' = {Terminal(n) : n \in st.in_doubt}
            /\ non_terminal_set' = st.nts
            /\ nt' = [o \in st.nts |-> NewFields]
    /\ UNCHANGED <<test_str, demo_index, stack>>
    /\ UNCHANGED <<line_list, line_idx, current_nt, has_body, production_set,
                   root_symbol, parsing_table, prod_first, todo, count_list>>

----------------------------------------------------------------------------
(* Orders of iteration over Python sets *)

RECURSIVE Perms(_)
\* the sequences that enumerate the set S once
Perms(S) ==
    IF S = {} THEN {<<>>}
    ELSE UNION {{<<x>> \o r : r \in Perms(S \ {x})} : x \in S}

RECURSIVE OrdersOf(_, _)
\* one order for each set F[o], o in objs
OrdersOf(F, objs) ==
    IF objs = {} THEN {<<>>}
    ELSE LET o == CHOOSE x \in objs : TRUE IN
         UNION {{Put(f, o, r) : r \in Perms(F[o])} : f \in OrdersOf(F, objs \ {o})}

----------------------------------------------------------------------------
(* class Production.  A production object is a record [lhs, rhs]: the      *)
(* fields lhs and rhs_list, which __setattr__ keeps from changing.  The    *)
(* operations act on a heap h: the objects' fields, and err.               *)

\* Production.__eq__ (and __hash__): lhs and rhs_list compared by name
PEq(p, q) ==
    /\ Len(p.rhs) = Len(q.rhs)
    /\ SymEq(p.lhs, q.lhs)
    /\ \A i \in 1..Len(p.rhs) : SymEq(p.rhs[i], q.rhs[i])

\* membership, set.add and set.remove of a Python set of productions
PIn(p, S) == \E q \in S : PEq(p, q)
PAdd(S, p) == IF PIn(p, S) THEN S ELSE S \cup {p}
PRemove(S, p) == {q \in S : ~PEq(p, q)}

Heap == [nt |-> nt, production_set |-> production_set,
         prod_first |-> prod_first, non_terminal_set |-> non_terminal_set,
         terminal_set |-> terminal_set, err |-> "none"]

RECURSIVE AddToRhsSets(_, _, _)
\* Production.__init__: the loop that adds self to the rhs_set of every
\* non-terminal of rhs_list, from position i
AddToRhsSets(nts, p, i) ==
    IF i > Len(p.rhs) THEN nts
    ELSE LET symbol == p.rhs[i] IN
         AddToRhsSets(
             IF is_non_terminal(symbol)
             THEN [nts EXCEPT ![symbol].rhs_set = PAdd(@, p)]
             ELSE nts,
             p, i + 1)

\* a Production.__init__ without its check of production_set: the equal
\* production is taken and no error is raised
ProductionInitUnchecked(h, lhs, rhs_list) ==
    LET self == [lhs |-> lhs, rhs |-> rhs_list]
        nt1 == AddToRhsSets(h.nt, self, 1)
        nt2 == [nt1 EXCEPT ![lhs].lhs_set = PAdd(@, self)]
        pf == IF self \in DOMAIN h.prod_first THEN h.prod_first
              ELSE Put(h.prod_first, self, {})
    IN [h EXCEPT !.nt = nt2, !.prod_first = pf,
                 !.production_set = h.production_set \cup {self}]

\* Production.__init__(pg, lhs, rhs_list)
ProductionInit(h, lhs, rhs_list) ==
    LET self == [lhs |-> lhs, rhs |-> rhs_list]
        nt1 == AddToRhsSets(h.nt, self, 1)
        nt2 == [nt1 EXCEPT ![lhs].lhs_set = PAdd(@, self)]
        pf == IF self \in DOMAIN h.prod_first THEN h.prod_first
              ELSE Put(h.prod_first, self, {})
    IN IF PIn(self, h.production_set)
       THEN [h EXCEPT !.nt = nt2, !.prod_first = pf,
                      !.err = "KeyError: Production already defined"]
       ELSE [h EXCEPT !.nt = nt2, !.prod_first = pf,
                      !.production_set = h.production_set \cup {self}]

RECURSIVE RemoveFromRhsSets(_, _, _)
\* Production.clear: the loop over rhs_list from position i; set.remove
\* raises KeyError when the production is not in the set
RemoveFromRhsSets(h, p, i) ==
    IF i > Len(p.rhs) THEN h
    ELSE LET symbol == p.rhs[i] IN
         IF is_non_terminal(symbol)
         THEN IF PIn(p, h.nt[symbol].rhs_set)
              THEN RemoveFromRhsSets(
                       [h EXCEPT !.nt[symbol].rhs_set = PRemove(@, p)], p, i + 1)
              ELSE [h EXCEPT !.err = "KeyError: rhs_set.remove"]
         ELSE RemoveFromRhsSets(h, p, i + 1)

\* a Production.clear that leaves the production in production_set
ClearLeavingProductionSet(h, self) ==
    IF ~PIn(self, h.nt[self.lhs].lhs_set)
    THEN [h EXCEPT !.err = "KeyError: lhs_set.remove"]
    ELSE RemoveFromRhsSets([h EXCEPT !.nt[self.lhs].lhs_set = PRemove(@, self)],
                           self, 1)

\* Production.clear()
ProductionClear(h, self) ==
    IF ~PIn(self, h.nt[self.lhs].lhs_set)
    THEN [h EXCEPT !.err = "KeyError: lhs_set.remove"]
    ELSE LET h1 == [h EXCEPT !.nt[self.lhs].lhs_set = PRemove(@, self)]
             h2 == RemoveFromRhsSets(h1, self, 1)
         IN IF h2.err # "none" THEN h2
            ELSE IF ~PIn(self, h2.production_set)
                 THEN [h2 EXCEPT !.err = "KeyError: production_set.remove"]
                 ELSE [h2 EXCEPT !.production_set = PRemove(@, self),
                                 !.prod_first =
                                     [q \in DOMAIN @ \ {self} |-> @[q]]]

\* Production.get_symbol_index(symbol)
get_symbol_index(p, symbol) ==
    {i \in 1..Len(p.rhs) : SymEq(p.rhs[i], symbol)}

----------------------------------------------------------------------------
(* ParserGenerator.process_production: one step per line of line_list *)

ProcessProduction ==
    /\ pc = "process_production"
    /\ line_idx <= Len(line_list)
    /\ LET line == line_list[line_idx]
           last == line_idx = Len(line_list)
       IN
       IF line.colon
       THEN IF ~has_body
            THEN /\ pc' = "failed"
                 /\ err' = "ValueError: Production does not have a body"
                 /\ UNCHANGED <<line_idx, current_nt, has_body, nt,
                                production_set, prod_first>>
            ELSE /\ has_body' = FALSE
                 /\ current_nt' = symbol_dict[line.names[1]]
                 /\ line_idx' = line_idx + 1
                 /\ pc' = IF last THEN "process_root_symbol" ELSE pc
                 /\ UNCHANGED <<err, nt, production_set, prod_first>>
       ELSE IF current_nt = NoneSymbol
            THEN /\ pc' = "failed"
                 /\ err' = "ValueError: The syntax must start with a non-terminal"
                 /\ UNCHANGED <<line_idx, current_nt, has_body, nt,
                                production_set, prod_first>>
            ELSE LET rhs_list == [i \in 1..Len(line.names) |->
                                     symbol_dict[line.names[i]]]
                     h == ProductionInit(Heap, current_nt, rhs_list)
                 IN /\ has_body' = TRUE
                    /\ nt' = h.nt
                    /\ production_set' = h.production_set
                    /\ prod_first' = h.prod_first
                    /\ err' = h.err
                    /\ IF h.err # "none"
                       THEN pc' = "failed" /\ UNCHANGED line_idx
                       ELSE /\ line_idx' = line_idx + 1
                            /\ pc' = IF last THEN "process_root_symbol" ELSE pc
                    /\ UNCHANGED current_nt
    /\ UNCHANGED <<test_str, demo_index, stack>>
    /\ UNCHANGED <<line_list, symbol_dict, terminal_set, non_terminal_set,
                   root_symbol, parsing_table, todo, count_list>>

----------------------------------------------------------------------------
(* ParserGenerator.process_root_symbol *)

ProcessRootSymbol ==
    /\ pc = "process_root_symbol"
    /\ LET root_symbol_list ==
               {symbol \in non_terminal_set : nt[symbol].rhs_set = {}}
       IN
       IF Cardinality(root_symbol_list) > 1
       THEN /\ pc' = "failed"
            /\ err' = "ValueError: Multiple root symbols"
            /\ UNCHANGED <<root_symbol, todo>>
       ELSE IF root_symbol_list = {}
            THEN /\ pc' = "failed"
                 /\ err' = "ValueError: Root symbol not found"
                 /\ UNCHANGED <<root_symbol, todo>>
            ELSE /\ root_symbol' = CHOOSE symbol \in root_symbol_list : TRUE
                 /\ pc' = "process_left_recursion"
                 \* process_left_recursion: temp = non_terminal_set.copy()
                 /\ todo' = non_terminal_set
                 /\ UNCHANGED err
    /\ UNCHANGED <<test_str, demo_index, stack>>
    /\ UNCHANGED <<line_list, line_idx, current_nt, has_body, symbol_dict,
                   terminal_set, non_terminal_set, production_set,
                   parsing_table, nt, prod_first, count_list>>

----------------------------------------------------------------------------
(* NonTerminal.eliminate_left_recursion, ParserGenerator.process_left_recursion *)

\* a test that takes every non-terminal with a production for a
\* left-recursive one
HasSomeProduction(ntf, self) == ntf[self].lhs_set # {}

\* NonTerminal.exists_direct_left_recursion()
exists_direct_left_recursion(ntf, self) ==
    \E p \in ntf[self].lhs_set : SymEq(p.rhs[1], self)

\* NonTerminal.get_new_symbol(): the new object; the caller increments
\* new_name_index and allocates the fields
get_new_symbol(ntf, self) ==
    [name |-> self.name \o "-" \o ToString(ntf[self].new_name_index),
     kind |-> "NT", born |-> "rewrite"]

RECURSIVE ClearAll(_, _, _)
\* eliminate_left_recursion: the loop `for p in p_set: p.clear()`
ClearAll(h, order, i) ==
    IF i > Len(order) \/ h.err # "none" THEN h
    ELSE ClearAll(ProductionClear(h, order[i]), order, i + 1)

RECURSIVE AddBeta(_, _, _, _, _)
\* eliminate_left_recursion: the loop `for beta in beta_set`
AddBeta(h, self, new_symbol, order, i) ==
    IF i > Len(order) \/ h.err # "none" THEN h
    ELSE LET beta == order[i]
             rhs_list ==
                 (IF Len(beta.rhs) = 1 /\ SymEq(beta.rhs[1], get_empty_symbol)
                  THEN <<>> ELSE beta.rhs) \o <<new_symbol>>
         IN AddBeta(ProductionInit(h, self, rhs_list),
                    self, new_symbol, order, i + 1)

RECURSIVE AddAlphaKeepingHead(_, _, _, _)
\* a loop `for alpha in alpha_set` that takes alpha.rhs_list whole, not
\* alpha.rhs_list[1:]
AddAlphaKeepingHead(h, new_symbol, order, i) ==
    IF i > Len(order) \/ h.err # "none" THEN h
    ELSE AddAlphaKeepingHead(
             ProductionInit(h, new_symbol, order[i].rhs \o <<new_symbol>>),
             new_symbol, order, i + 1)

RECURSIVE AddAlpha(_, _, _, _)
\* eliminate_left_recursion: the loop `for alpha in alpha_set`
AddAlpha(h, new_symbol, order, i) ==
    IF i > Len(order) \/ h.err # "none" THEN h
    ELSE LET rhs_list == Tail(order[i].rhs) \o <<new_symbol>>
         IN AddAlpha(ProductionInit(h, new_symbol, rhs_list),
                     new_symbol, order, i + 1)

\* NonTerminal.eliminate_left_recursion(); order is the order in which the
\* loops visit p_set, and its alpha and beta subsets
eliminate_left_recursion(h, self, order) ==
    IF ~exists_direct_left_recursion(h.nt, self) THEN h
    ELSE LET h1 == ClearAll(h, order, 1)
             alpha == SelectSeq(order, LAMBDA p : SymEq(p.rhs[1], self))
             beta == SelectSeq(order, LAMBDA p : ~SymEq(p.rhs[1], self))
             new_symbol == get_new_symbol(h1.nt, self)
             h2 == [h1 EXCEPT
                       !.nt = Put([@ EXCEPT ![self].new_name_index = @ + 1],
                                  new_symbol, NewFields),
                       !.non_terminal_set = SymAdd(@, new_symbol),
                       !.terminal_set = SymAdd(@, get_empty_symbol)]
             h3 == AddBeta(h2, self, new_symbol, beta, 1)
             h4 == AddAlpha(h3, new_symbol, alpha, 1)
         IN IF h1.err # "none" THEN h1
            ELSE IF h4.err # "none" THEN h4
                 ELSE ProductionInit(h4, new_symbol, <<get_empty_symbol>>)

\* NonTerminal.clear_result_available() on every symbol of nts
ClearResultAvailable(ntf, nts) ==
    [o \in DOMAIN ntf |->
        IF o \in nts THEN [ntf[o] EXCEPT !.result_available = FALSE] ELSE ntf[o]]

\* a get_first_length() that answers one more than before when nothing
\* has changed since the last round: the vectors of two rounds never agree
FirstLengthsUnstable(ntf, nts) ==
    LET t == [o \in nts |-> Cardinality(ntf[o].first_set)] IN
    IF t = count_list THEN [o \in nts |-> t[o] + 1] ELSE t

\* a get_first_length() that always answers 0: the FIRST loop is left
\* after its first round
FirstLengthsConstant(ntf, nts) == [o \in nts |-> 0]

\* nt.get_first_length() for every nt of nt_list
FirstLengths(ntf, nts) == [o \in nts |-> Cardinality(ntf[o].first_set)]
\* nt.get_follow_length() for every nt of nt_list
FollowLengths(ntf, nts) == [o \in nts |-> Cardinality(ntf[o].follow_set)]

\* process_left_recursion: one step per symbol of temp.  After the last
\* one process_first_follow starts and takes count_list.
ProcessLeftRecursion ==
    /\ pc = "process_left_recursion"
    /\ \E symbol \in todo :
          \E order \in Perms(nt[symbol].lhs_set) :
             LET h == eliminate_left_recursion(Heap, symbol, order) IN
             /\ production_set' = h.production_set
             /\ prod_first' = h.prod_first
             /\ non_terminal_set' = h.non_terminal_set
             /\ terminal_set' = h.terminal_set
             /\ err' = h.err
             /\ IF h.err # "none"
                THEN /\ pc' = "failed"
                     /\ nt' = h.nt
                     /\ UNCHANGED <<todo, count_list>>
                ELSE IF todo = {symbol}
                     THEN /\ pc' = "compute_first"
                          /\ count_list' = FirstLengths(h.nt, h.non_terminal_set)
                          /\ nt' = ClearResultAvailable(h.nt, h.non_terminal_set)
                          /\ todo' = h.non_terminal_set
                     ELSE /\ pc' = pc
                          /\ nt' = h.nt
                          /\ todo' = todo \ {symbol}
                          /\ UNCHANGED count_list
    /\ UNCHANGED <<test_str, demo_index, stack>>
    /\ UNCHANGED <<line_list, line_idx, current_nt, has_body, symbol_dict,
                   root_symbol, parsing_table>>

----------------------------------------------------------------------------
(* NonTerminal.compute_first, Production.compute_substring_first,          *)
(* NonTerminal.compute_follow.  The recursions act on st = [nt,            *)
(* prod_first, err]; ord[o] is the order in which `for p in o.lhs_set`     *)
(* (compute_first) or `for p in o.rhs_set` (compute_follow) visits the set.*)

RECURSIVE compute_first(_, _, _, _)
RECURSIVE FirstSymbols(_, _, _, _, _, _)
RECURSIVE FirstProductions(_, _, _, _, _)

\* NonTerminal.compute_first(path_list)
compute_first(st, self, path_list, ord) ==
    IF st.nt[self].result_available THEN st
    ELSE LET st1 == [st EXCEPT !.nt[self].result_available = TRUE] IN
         IF SymIn(self, path_list) THEN st1
         ELSE FirstProductions(st1, self, path_list \cup {self}, ord, 1)

\* the loop `for p in self.lhs_set`, from the k-th production of ord[self]
FirstProductions(st, self, path_list, ord, k) ==
    IF k > Len(ord[self]) THEN st
    ELSE FirstProductions(FirstSymbols(st, self, ord[self][k], path_list, ord, 1),
                          self, path_list, ord, k + 1)

\* the loop `for symbol in p.rhs_list`, from position i, with its else branch
FirstSymbols(st, self, p, path_list, ord, i) ==
    IF i > Len(p.rhs)
    THEN [st EXCEPT !.prod_first[p] = @ \cup {get_empty_symbol},
                    !.nt[self].first_set = @ \cup {get_empty_symbol}]
    ELSE LET symbol == p.rhs[i] IN
         IF is_terminal(symbol)
         THEN [st EXCEPT !.nt[self].first_set = @ \cup {symbol},
                         !.prod_first[p] = @ \cup {symbol}]
         ELSE LET st1 == compute_first(st, symbol, path_list, ord)
                  symbol_first == st1.nt[symbol].first_set
                  st2 == [st1 EXCEPT !.nt[self].first_set = @ \cup symbol_first,
                                     !.prod_first[p] = @ \cup symbol_first]
              IN IF get_empty_symbol \notin symbol_first THEN st2
                 ELSE FirstSymbols(st2, self, p, path_list, ord, i + 1)

RECURSIVE SubstringFirst(_, _, _, _)
\* Production.compute_substring_first: the loop from position i with ret;
\* the result is [err, set]
SubstringFirst(ntf, p, i, ret) ==
    IF i > Len(p.rhs)
    THEN [err |-> "none", set |-> ret \cup {get_empty_symbol}]
    ELSE LET rhs == p.rhs[i] IN
         IF is_terminal(rhs)
         THEN [err |-> "none", set |-> ret \cup {rhs}]
         ELSE IF ntf[rhs].first_set = {}
              THEN [err |-> "AssertionError: len(rhs.first_set) > 0", set |-> ret]
              ELSE LET ret1 == (ret \cup ntf[rhs].first_set) \ {get_empty_symbol}
                   IN IF get_empty_symbol \notin ntf[rhs].first_set
                      THEN [err |-> "none", set |-> ret1]
                      ELSE SubstringFirst(ntf, p, i + 1, ret1)

\* Production.compute_substring_first(index); positions count from 1
compute_substring_first(ntf, p, index) ==
    IF ~(index <= Len(p.rhs))
    THEN [err |-> "AssertionError: index < len(self.rhs_list)", set |-> {}]
    ELSE SubstringFirst(ntf, p, index, {})

RECURSIVE compute_follow(_, _, _, _)
RECURSIVE FollowProductions(_, _, _, _, _)

\* a loop body of compute_follow that does not remove EMPTY from
\* substr_first_set
FollowProductionKeepingEmpty(st, self, p, path_list, ord) ==
    LET index == CHOOSE i \in get_symbol_index(p, self) : TRUE IN
    IF Cardinality(get_symbol_index(p, self)) # 1
    THEN [st EXCEPT !.err = "AssertionError: len(index_list) == 1"]
    ELSE IF index = Len(p.rhs)
         THEN LET st1 == compute_follow(st, p.lhs, path_list, ord) IN
              IF st1.err # "none" THEN st1
              ELSE [st1 EXCEPT !.nt[self].follow_set =
                                   @ \cup st1.nt[p.lhs].follow_set]
         ELSE LET substr_first_set == compute_substring_first(st.nt, p, index + 1)
              IN
              IF substr_first_set.err # "none"
              THEN [st EXCEPT !.err = substr_first_set.err]
              ELSE IF get_empty_symbol \in substr_first_set.set
                   THEN LET st1 == compute_follow(st, p.lhs, path_list, ord) IN
                        IF st1.err # "none" THEN st1
                        ELSE [st1 EXCEPT !.nt[self].follow_set =
                                  (@ \cup st1.nt[p.lhs].follow_set)
                                  \cup substr_first_set.set]
                   ELSE [st EXCEPT !.nt[self].follow_set =
                                       @ \cup substr_first_set.set]

\* a loop body of compute_follow that takes FOLLOW(p.lhs) only when the
\* symbol is the last one of the production
FollowProductionIgnoringNullableTail(st, self, p, path_list, ord) ==
    LET index == CHOOSE i \in get_symbol_index(p, self) : TRUE IN
    IF Cardinality(get_symbol_index(p, self)) # 1
    THEN [st EXCEPT !.err = "AssertionError: len(index_list) == 1"]
    ELSE IF index = Len(p.rhs)
         THEN LET st1 == compute_follow(st, p.lhs, path_list, ord) IN
              IF st1.err # "none" THEN st1
              ELSE [st1 EXCEPT !.nt[self].follow_set =
                                   @ \cup st1.nt[p.lhs].follow_set]
         ELSE LET substr_first_set == compute_substring_first(st.nt, p, index + 1)
              IN
              IF substr_first_set.err # "none"
              THEN [st EXCEPT !.err = substr_first_set.err]
              ELSE [st EXCEPT !.nt[self].follow_set =
                       @ \cup (substr_first_set.set \ {get_empty_symbol})]

\* compute_follow: the body of the loop `for p in self.rhs_set`
FollowProduction(st, self, p, path_list, ord) ==
    LET index_list == get_symbol_index(p, self) IN
    IF Cardinality(index_list) # 1
    THEN [st EXCEPT !.err = "AssertionError: len(index_list) == 1"]
    ELSE LET index == CHOOSE i \in index_list : TRUE IN
         IF index = Len(p.rhs)
         THEN LET st1 == compute_follow(st, p.lhs, path_list, ord) IN
              IF st1.err # "none" THEN st1
              ELSE [st1 EXCEPT !.nt[self].follow_set =
                                   @ \cup st1.nt[p.lhs].follow_set]
         ELSE LET substr_first_set == compute_substring_first(st.nt, p, index + 1)
              IN
              IF substr_first_set.err # "none"
              THEN [st EXCEPT !.err = substr_first_set.err]
              ELSE IF get_empty_symbol \in substr_first_set.set
                   THEN LET st1 == compute_follow(st, p.lhs, path_list, ord) IN
                        IF st1.err # "none" THEN st1
                        ELSE [st1 EXCEPT !.nt[self].follow_set =
                                  (@ \cup st1.nt[p.lhs].follow_set)
                                  \cup (substr_first_set.set \ {get_empty_symbol})]
                   ELSE [st EXCEPT !.nt[self].follow_set =
                                       @ \cup substr_first_set.set]

\* NonTerminal.compute_follow(path_list)
compute_follow(st, self, path_list, ord) ==
    IF st.nt[self].result_available THEN st
    ELSE LET st1 == [st EXCEPT !.nt[self].result_available = TRUE] IN
         IF SymIn(self, path_list) THEN st1
         ELSE FollowProductions(st1, self, path_list \cup {self}, ord, 1)

\* the loop `for p in self.rhs_set`, from the k-th production of ord[self]
FollowProductions(st, self, path_list, ord, k) ==
    IF k > Len(ord[self]) \/ st.err # "none" THEN st
    ELSE FollowProductions(
             FollowProduction(st, self, ord[self][k], path_list, ord),
             self, path_list, ord, k + 1)

----------------------------------------------------------------------------
(* ParserGenerator.process_first_follow: one step per call of             *)
(* compute_first (compute_follow) that its loops make on a symbol of       *)
(* non_terminal_set.  The step that ends a round compares the lengths with *)
(* count_list and either clears the flags for the next round or breaks.    *)

LhsSets == [o \in DOMAIN nt |-> nt[o].lhs_set]
RhsSets == [o \in DOMAIN nt |-> nt[o].rhs_set]

ComputeFirstStep ==
    /\ pc = "compute_first"
    /\ \E symbol \in todo :
          \E ord \in OrdersOf(LhsSets, DOMAIN nt) :
             LET st == compute_first([nt |-> nt, prod_first |-> prod_first,
                                      err |-> "none"], symbol, {}, ord)
                 t == FirstLengths(st.nt, non_terminal_set)
             IN
             /\ prod_first' = st.prod_first
             /\ IF todo # {symbol}
                THEN /\ nt' = st.nt
                     /\ todo' = todo \ {symbol}
                     /\ UNCHANGED <<pc, count_list>>
                ELSE IF t # count_list
                     THEN /\ count_list' = t
                          /\ nt' = ClearResultAvailable(st.nt, non_terminal_set)
                          /\ todo' = non_terminal_set
                          /\ UNCHANGED pc
                     ELSE \* the FIRST loop breaks; END goes into the root's
                          \* follow_set and the FOLLOW loop starts
                          LET nt1 == [st.nt EXCEPT ![root_symbol].follow_set =
                                          @ \cup {get_end_symbol}]
                          IN /\ count_list' = FollowLengths(nt1, non_terminal_set)
                             /\ nt' = ClearResultAvailable(nt1, non_terminal_set)
                             /\ todo' = non_terminal_set
                             /\ pc' = "compute_follow"
    /\ UNCHANGED <<test_str, demo_index, stack>>
    /\ UNCHANGED <<line_list, err, line_idx, current_nt, has_body, symbol_dict,
                   terminal_set, non_terminal_set, production_set, root_symbol,
                   parsing_table>>

ComputeFollowStep ==
    /\ pc = "compute_follow"
    /\ \E symbol \in todo :
          \E ord \in OrdersOf(RhsSets, DOMAIN nt) :
             LET st == compute_follow([nt |-> nt, prod_first |-> prod_first,
                                       err |-> "none"], symbol, {}, ord)
                 t == FollowLengths(st.nt, non_terminal_set)
             IN
             /\ err' = st.err
             /\ IF st.err # "none"
                THEN /\ pc' = "failed"
                     /\ nt' = st.nt
                     /\ UNCHANGED <<todo, count_list>>
                ELSE IF todo # {symbol}
                     THEN /\ nt' = st.nt
                          /\ todo' = todo \ {symbol}
                          /\ UNCHANGED <<pc, count_list>>
                     ELSE IF t # count_list
                          THEN /\ count_list' = t
                               /\ nt' = ClearResultAvailable(st.nt, non_terminal_set)
                               /\ todo' = non_terminal_set
                               /\ UNCHANGED pc
                          ELSE \* the FOLLOW loop breaks; verify starts
                               /\ nt' = st.nt
                               /\ todo' = non_terminal_set
                               /\ pc' = "verify"
                               /\ UNCHANGED count_list
    /\ UNCHANGED <<test_str, demo_index, stack>>
    /\ UNCHANGED <<line_list, line_idx, current_nt, has_body, symbol_dict,
                   terminal_set, non_terminal_set, production_set, root_symbol,
                   parsing_table, prod_first>>

----------------------------------------------------------------------------
(* ParserGenerator.verify *)

\* set.union of two Python sets of symbols
SymUnion(S, T) == S \cup {y \in T : ~SymIn(y, S)}

RECURSIVE build_first_rhs_set(_, _, _)
RECURSIVE FirstRhsProductions(_, _, _, _)

\* NonTerminal.build_first_rhs_set()
build_first_rhs_set(ntf, self, ord) ==
    IF ntf[self].first_rhs_set.built THEN ntf
    ELSE FirstRhsProductions(
             [ntf EXCEPT ![self].first_rhs_set = [built |-> TRUE, set |-> {}]],
             self, ord, 1)

RECURSIVE FirstRhsWithoutDirect(_, _, _, _)
\* a loop `for p in self.lhs_set` that merges s.first_rhs_set and does not
\* add s itself
FirstRhsWithoutDirect(ntf, self, ord, k) ==
    IF k > Len(ord[self]) THEN ntf
    ELSE LET s == ord[self][k].rhs[1] IN
         IF is_terminal(s)
         THEN FirstRhsWithoutDirect(ntf, self, ord, k + 1)
         ELSE LET ntf1 == build_first_rhs_set(ntf, s, ord) IN
              FirstRhsWithoutDirect(
                  [ntf1 EXCEPT ![self].first_rhs_set.set =
                       SymUnion(@, ntf1[s].first_rhs_set.set)],
                  self, ord, k + 1)

\* the loop `for p in self.lhs_set`, from the k-th production of ord[self]
FirstRhsProductions(ntf, self, ord, k) ==
    IF k > Len(ord[self]) THEN ntf
    ELSE LET s == ord[self][k].rhs[1] IN
         IF is_terminal(s)
         THEN FirstRhsProductions(ntf, self, ord, k + 1)
         ELSE LET ntf1 == build_first_rhs_set(ntf, s, ord)
                  merged == SymUnion(ntf1[self].first_rhs_set.set,
                                     ntf1[s].first_rhs_set.set)
              IN FirstRhsProductions(
                     [ntf1 EXCEPT ![self].first_rhs_set.set = SymAdd(merged, s)],
                     self, ord, k + 1)

\* verify, conditions 1 and 2: one step per symbol of the loop over
\* non_terminal_set that calls exists_indirect_left_recursion()
VerifyLeftRecursion ==
    /\ pc = "verify"
    /\ \E symbol \in todo :
          \E ord \in OrdersOf(LhsSets, DOMAIN nt) :
             LET ntf == build_first_rhs_set(nt, symbol, ord) IN
             /\ nt' = ntf
             /\ IF SymIn(symbol, ntf[symbol].first_rhs_set.set)
                THEN /\ pc' = "failed"
                     /\ err' = "ValueError: Left recursion is detected"
                     /\ UNCHANGED todo
                ELSE /\ todo' = todo \ {symbol}
                     /\ pc' = IF todo = {symbol} THEN "verify_ll1" ELSE pc
                     /\ UNCHANGED err
    /\ UNCHANGED <<test_str, demo_index, stack>>
    /\ UNCHANGED <<line_list, line_idx, current_nt, has_body, symbol_dict,
                   terminal_set, non_terminal_set, production_set, root_symbol,
                   parsing_table, prod_first, count_list>>

\* verify, condition 5
EmptyInTheMiddle ==
    \E p \in production_set :
        \E i \in 1..Len(p.rhs) :
            SymEq(p.rhs[i], get_empty_symbol) /\ Len(p.rhs) # 1

\* verify, condition 6
AppearsTwice ==
    \E symbol \in non_terminal_set :
        \E p \in nt[symbol].rhs_set :
            Cardinality(get_symbol_index(p, symbol)) # 1

\* verify, condition 7
EmptyInFollow ==
    \E symbol \in non_terminal_set : get_empty_symbol \in nt[symbol].follow_set

\* verify, condition 3
FirstFirstConflict ==
    \E symbol \in non_terminal_set :
        \E pi, pj \in nt[symbol].lhs_set :
            pi # pj /\ prod_first[pi] \cap prod_first[pj] # {}

\* verify, condition 4
FirstFollowConflict ==
    \E symbol \in non_terminal_set :
        \E pi, pj \in nt[symbol].lhs_set :
            /\ pi # pj
            /\ get_empty_symbol \in prod_first[pi]
            /\ prod_first[pj] \cap nt[symbol].follow_set # {}

\* verify, conditions 5, 6, 7, 3 and 4, in the order of the code
\* a verify whose error does not stop read_file: the table generation
\* still runs after it
VerifyLL1Continuing ==
    /\ pc = "verify_ll1"
    /\ err' = IF EmptyInTheMiddle
              THEN "ValueError: Empty string in the middle of production"
              ELSE IF FirstFirstConflict
              THEN "ValueError: The intersection of first_set is not empty"
              ELSE IF FirstFollowConflict THEN "ValueError: FIRST/FOLLOW conflict"
              ELSE "none"
    /\ pc' = "generate_parsing_table"
    /\ todo' = production_set
    /\ UNCHANGED <<test_str, demo_index, stack>>
    /\ UNCHANGED <<line_list, line_idx, current_nt, has_body, symbol_dict,
                   terminal_set, non_terminal_set, production_set, root_symbol,
                   parsing_table, nt, prod_first, count_list>>

VerifyLL1 ==
    /\ pc = "verify_ll1"
    /\ err' = IF EmptyInTheMiddle
              THEN "ValueError: Empty string in the middle of production"
              ELSE IF AppearsTwice THEN "AssertionError: len(ret) == 1"
              ELSE IF EmptyInFollow
              THEN "AssertionError: empty symbol in follow_set"
              ELSE IF FirstFirstConflict
              THEN "ValueError: The intersection of first_set is not empty"
              ELSE IF FirstFollowConflict THEN "ValueError: FIRST/FOLLOW conflict"
              ELSE "none"
    \* generate_parsing_table: the loop over production_set, which returns
    \* at once when there is no production
    /\ pc' = IF err' # "none" THEN "failed"
             ELSE IF production_set = {} THEN "done"
             ELSE "generate_parsing_table"
    /\ todo' = IF err' = "none" THEN production_set ELSE todo
    /\ UNCHANGED <<test_str, demo_index, stack>>
    /\ UNCHANGED <<line_list, line_idx, current_nt, has_body, symbol_dict,
                   terminal_set, non_terminal_set, production_set, root_symbol,
                   parsing_table, nt, prod_first, count_list>>

----------------------------------------------------------------------------
(* ParserGenerator.generate_parsing_table: one step per production.  The   *)
(* dict parsing_table is a function of the pairs <<A.name, x.name>>: a     *)
(* tuple key is hashed and compared through its symbols' names.            *)

RECURSIVE AddEntries(_, _, _, _, _)
\* a loop `for i in <set>` that adds (lhs, i) -> p, in the order given;
\* tbl = [table, err]
AddEntries(tbl, p, order, k, message) ==
    IF k > Len(order) \/ tbl.err # "none" THEN tbl
    ELSE LET i == order[k]
             pair == <<p.lhs.name, i.name>>
         IN IF SymEq(i, get_empty_symbol) /\ message = "FIRST"
            THEN AddEntries(tbl, p, order, k + 1, message)
            ELSE IF pair \in DOMAIN tbl.table
                 THEN [tbl EXCEPT !.err = "KeyError: Duplicated (A, " \o message
                                          \o ") entry"]
                 ELSE AddEntries([tbl EXCEPT !.table = Put(@, pair, p)],
                                 p, order, k + 1, message)

\* a loop body of generate_parsing_table without the FOLLOW clause
TableWithoutFollowClause(table, p, first_order, follow_order) ==
    AddEntries([table |-> table, err |-> "none"], p, first_order, 1, "FIRST")

\* the body of the loop `for p in self.production_set`
TableOfProduction(table, p, first_order, follow_order) ==
    LET t1 == AddEntries([table |-> table, err |-> "none"], p, first_order, 1,
                         "FIRST")
    IN IF t1.err = "none" /\ get_empty_symbol \in prod_first[p]
       THEN AddEntries(t1, p, follow_order, 1, "FOLLOW")
       ELSE t1

GenerateParsingTable ==
    /\ pc = "generate_parsing_table"
    /\ \E p \in todo :
          \E first_order \in Perms(prod_first[p]) :
             \E follow_order \in Perms(nt[p.lhs].follow_set) :
                LET t == TableOfProduction(parsing_table, p, first_order,
                                           follow_order)
                IN /\ parsing_table' = t.table
                   /\ err' = t.err
                   /\ IF t.err # "none"
                      THEN pc' = "failed" /\ UNCHANGED todo
                      ELSE /\ todo' = todo \ {p}
                           /\ pc' = IF todo = {p} THEN "done" ELSE pc
    /\ UNCHANGED <<test_str, demo_index, stack>>
    /\ UNCHANGED <<line_list, line_idx, current_nt, has_body, symbol_dict,
                   terminal_set, non_terminal_set, production_set, root_symbol,
                   nt, prod_first, count_list>>

----------------------------------------------------------------------------
(* ParserGeneratorTestCase.demo: the driver that parses a token sequence   *)
(* with the table, one step per iteration of its loop.  The sequences are  *)
(* at most MaxTokens terminals of the grammar followed by END.             *)

MaxTokens == 2
MaxStack == 8

TestStrings ==
    LET tokens == {t \in terminal_set : ~SymEq(t, get_empty_symbol)} IN
    {input \o <<get_end_symbol>> :
        input \in UNION {[1..n -> tokens] : n \in 0..MaxTokens}}

\* reversed(p.rhs_list)
Reversed(s) == [i \in 1..Len(s) |-> s[Len(s) + 1 - i]]

\* test_read_file calls demo after a construction that has succeeded:
\* index = 0, stack = [pg.root_symbol]
StartDemo ==
    /\ pc = "done"
    /\ \E input \in TestStrings : test_str' = input
    /\ demo_index' = 0
    /\ stack' = <<root_symbol>>
    /\ pc' = "demo"
    /\ UNCHANGED <<line_list, err, line_idx, current_nt, has_body, symbol_dict,
                   terminal_set, non_terminal_set, production_set, root_symbol,
                   parsing_table, nt, prod_first, todo, count_list>>

\* the iteration goes on with this stack and index; the loop is left when
\* the stack is empty
DemoContinue(new_stack, new_index) ==
    /\ Len(new_stack) <= MaxStack
    /\ stack' = new_stack
    /\ demo_index' = new_index
    /\ pc' = IF new_stack = <<>> THEN "accepted" ELSE "demo"
    /\ UNCHANGED err

\* the iteration raises
DemoRaise(exception) ==
    /\ pc' = "demo_failed"
    /\ err' = exception
    /\ UNCHANGED <<stack, demo_index>>

\* one iteration of `while len(stack) > 0`
DemoStep ==
    /\ pc = "demo"
    /\ LET top == stack[Len(stack)]
           popped == SubSeq(stack, 1, Len(stack) - 1)
       IN
       IF is_terminal(top)
       THEN IF SymEq(top, get_empty_symbol)
            THEN DemoContinue(popped, demo_index)
            ELSE IF demo_index >= Len(test_str)
                 THEN DemoRaise("IndexError: list demo_index out of range")
                 ELSE IF SymEq(top, test_str[demo_index + 1])
                      THEN DemoContinue(popped, demo_index + 1)
                      ELSE DemoRaise("ValueError: Could not match token")
       ELSE IF demo_index >= Len(test_str)
            THEN DemoRaise("IndexError: list demo_index out of range")
            ELSE LET pair == <<top.name, test_str[demo_index + 1].name>> IN
                 IF pair \notin DOMAIN parsing_table
                 THEN DemoRaise("ValueError: Could not find entry in parsing table")
                 ELSE DemoContinue(popped \o Reversed(parsing_table[pair].rhs),
                                   demo_index)
    /\ UNCHANGED <<line_list, line_idx, current_nt, has_body, symbol_dict,
                   terminal_set, non_terminal_set, production_set, root_symbol,
                   parsing_table, nt, prod_first, todo, count_list, test_str>>

----------------------------------------------------------------------------
Next ==
    \/ ProcessSymbol
    \/ ProcessProduction
    \/ ProcessRootSymbol
    \/ ProcessLeftRecursion
    \/ ComputeFirstStep
    \/ ComputeFollowStep
    \/ VerifyLeftRecursion
    \/ VerifyLL1
    \/ GenerateParsingTable

Spec == Init /\ [][Next]_vars

\* the construction followed by the demo.  The driver is a sequential
\* loop that the interpreter keeps executing: an iteration that can be
\* made is made.
DemoNext == Next \/ StartDemo \/ DemoStep

DemoSpec == Init /\ [][DemoNext]_vars /\ WF_vars(DemoStep)

----------------------------------------------------------------------------
(* Grammar files with a left-recursive start symbol, with left recursion   *)
(* through two non-terminals, and with declarations that have no body     *)
(* line: line_list as read_file hands it to process_symbol.                *)

\* E: E T_PLUS T | T;  T: T_ID
ExprLines ==
    <<DeclLine("E"), BodyLine(<<"E", "T_PLUS", "T">>), BodyLine(<<"T">>),
      DeclLine("T"), BodyLine(<<"T_ID">>)>>

\* S: S T_A | T_
ListLines ==
    <<DeclLine("S"), BodyLine(<<"S", "T_A">>), BodyLine(<<EMPTY_SYMBOL_NAME>>)>>

\* S: A T_X;  A: S T_Y
IndirectLines ==
    <<DeclLine("S"), BodyLine(<<"A", "T_X">>),
      DeclLine("A"), BodyLine(<<"S", "T_Y">>)>>

\* the artificial root that the docstring of process_root_symbol proposes:
\* a declaration R with the body `start` before the lines of a grammar
WithRoot(start, lines) == <<DeclLine("R"), BodyLine(<<start>>)>> \o lines

\* declarations without a body line: the last one, one in the middle, the
\* first one, the only one
LastHasNoBody == <<DeclLine("S"), BodyLine(<<"A">>), DeclLine("A")>>
MiddleHasNoBody ==
    <<DeclLine("S"), BodyLine(<<"A", "B">>), DeclLine("A"),
      DeclLine("B"), BodyLine(<<"b">>)>>
FirstHasNoBody == <<DeclLine("A"), DeclLine("S"), BodyLine(<<"A">>)>>
OnlyHasNoBody == <<DeclLine("S")>>
\* the same declarations, each with a body
EachHasBody ==
    <<DeclLine("S"), BodyLine(<<"A">>), DeclLine("A"), BodyLine(<<"b">>)>>

\* the name T_EOF as a token of a body, and as a declared non-terminal
EndInBody == <<DeclLine("S"), BodyLine(<<"a", END_SYMBOL_NAME>>)>>
EndDeclared ==
    <<DeclLine("S"), BodyLine(<<END_SYMBOL_NAME>>),
      DeclLine(END_SYMBOL_NAME), BodyLine(<<"a">>)>>

\* a file that declares a non-terminal with the name that get_new_symbol
\* will synthesise for E, and one that uses a terminal with that name
UsesNewNameAsNonTerminal ==
    <<DeclLine("R"), BodyLine(<<"E", "E-1">>),
      DeclLine("E"), BodyLine(<<"E", "a">>), BodyLine(<<"b">>),
      DeclLine("E-1"), BodyLine(<<"c">>)>>
UsesNewNameAsTerminal ==
    <<DeclLine("R"), BodyLine(<<"E", "E-1">>),
      DeclLine("E"), BodyLine(<<"E", "a">>), BodyLine(<<"b">>)>>

ScenarioGrammars ==
    {ExprLines, ListLines, IndirectLines,
     WithRoot("E", ExprLines), WithRoot("S", ListLines),
     WithRoot("S", IndirectLines),
     LastHasNoBody, MiddleHasNoBody, FirstHasNoBody, OnlyHasNoBody,
     EachHasBody, EndInBody, EndDeclared,
     UsesNewNameAsNonTerminal, UsesNewNameAsTerminal}

\* ParserGenerator.__init__ on one of these files
ScenarioInit ==
    /\ line_list \in ScenarioGrammars
    /\ pc = "process_symbol"
    /\ err = "none"
    /\ line_idx = 1
    /\ current_nt = NoneSymbol
    /\ has_body = TRUE
    /\ symbol_dict = <<>>
    /\ terminal_set = {}
    /\ non_terminal_set = {}
    /\ production_set = {}
    /\ root_symbol = NoneSymbol
    /\ parsing_table = <<>>
    /\ nt = <<>>
    /\ prod_first = <<>>
    /\ todo = {}
    /\ count_list = <<>>
    /\ test_str = <<>>
    /\ demo_index = 0
    /\ stack = <<>>

ScenarioSpec == ScenarioInit /\ [][Next]_vars
----------------------------------------------------------------------------
(* Properties of the FIRST sets *)

\* the stages after process_first_follow has returned
AfterFirstFollow ==
    pc \in {"verify", "verify_ll1", "generate_parsing_table", "done"}

\* C1: after a successful construction every production p of production_set
\* has p.first_set = p.compute_substring_first(0)
C1_FirstSetIsSubstringFirst ==
    pc = "done" =>
        \A p \in production_set :
            LET r == compute_substring_first(nt, p, 1) IN
            r.err = "none" /\ prod_first[p] = r.set

\* C2: after process_first_follow the first_set of every non-terminal A is
\* the union of p.compute_substring_first(0) over the productions p of
\* A.lhs_set (wherever compute_substring_first returns)
C2_FirstSetIsUnionOfSubstringFirst ==
    AfterFirstFollow =>
        \A A \in non_terminal_set :
            (\A p \in nt[A].lhs_set :
                 compute_substring_first(nt, p, 1).err = "none")
            => nt[A].first_set =
                   UNION {compute_substring_first(nt, p, 1).set :
                              p \in nt[A].lhs_set}

RECURSIVE NullableFix(_)
\* the non-terminals that derive the empty string: the least N closed under
\* "A -> X1 .. Xk with every Xi EMPTY or in N"
NullableFix(N) ==
    LET N1 == {A \in non_terminal_set :
                  \E p \in production_set :
                      /\ SymEq(p.lhs, A)
                      /\ \A i \in 1..Len(p.rhs) :
                             \/ SymEq(p.rhs[i], get_empty_symbol)
                             \/ SymIn(p.rhs[i], N)}
    IN IF N1 = N THEN N ELSE NullableFix(N1)

Nullable == NullableFix({})

RECURSIVE StringFirst(_, _, _)
\* the non-EMPTY terminals that begin a derivation from rhs[i..], given the
\* sets F of the non-terminals
StringFirst(F, rhs, i) ==
    IF i > Len(rhs) THEN {}
    ELSE LET x == rhs[i] IN
         IF SymEq(x, get_empty_symbol) THEN StringFirst(F, rhs, i + 1)
         ELSE IF is_terminal(x) THEN {x}
         ELSE F[x] \cup (IF x \in Nullable THEN StringFirst(F, rhs, i + 1) ELSE {})

RECURSIVE TextbookFirstFix(_)
TextbookFirstFix(F) ==
    LET F1 == [A \in non_terminal_set |->
                  UNION {StringFirst(F, p.rhs, 1) :
                             p \in {q \in production_set : SymEq(q.lhs, A)}}]
    IN IF F1 = F THEN F ELSE TextbookFirstFix(F1)

\* FIRST(A) of the grammar production_set, as the textbooks define it
TextbookFirst(A) ==
    TextbookFirstFix([B \in non_terminal_set |-> {}])[A]
        \cup (IF A \in Nullable THEN {get_empty_symbol} ELSE {})

\* C3: after process_first_follow the first_set of every non-terminal A is
\* the textbook FIRST set: a terminal t is in it iff a derivation from A
\* begins with t, and EMPTY is in it iff A derives the empty string
C3_FirstSetIsTextbookFirst ==
    (AfterFirstFollow /\ ~EmptyInTheMiddle) =>
        \A A \in non_terminal_set : nt[A].first_set = TextbookFirst(A)

\* C4: when verify has returned, generate_parsing_table raises no
\* duplicate-entry error
C4_NoDuplicateEntry ==
    ~(pc = "failed" /\ err \in {"KeyError: Duplicated (A, FIRST) entry",
                                "KeyError: Duplicated (A, FOLLOW) entry"})

----------------------------------------------------------------------------
(* Properties of the parsing table *)

\* the builder rule: the production p is entered under the terminal x
BuilderRule(p, x) ==
    \/ x \in prod_first[p] /\ ~SymEq(x, get_empty_symbol)
    \/ get_empty_symbol \in prod_first[p] /\ x \in nt[p.lhs].follow_set

\* C5: after a successful construction parsing_table[(A, x)] = p iff
\* p.lhs = A and the builder rule enters p under x; no other key is present
C5_TableIsBuilderRule ==
    pc = "done" =>
        /\ \A pair \in DOMAIN parsing_table :
               \E p \in production_set :
                   /\ parsing_table[pair] = p
                   /\ p.lhs.name = pair[1]
                   /\ \E x \in prod_first[p] \cup nt[p.lhs].follow_set :
                          x.name = pair[2] /\ BuilderRule(p, x)
        /\ \A p \in production_set :
               \A x \in prod_first[p] \cup nt[p.lhs].follow_set :
                   BuilderRule(p, x) =>
                       /\ <<p.lhs.name, x.name>> \in DOMAIN parsing_table
                       /\ parsing_table[<<p.lhs.name, x.name>>] = p

\* a finished table with entries of both clauses of the builder rule
C5_Witness ==
    /\ pc = "done"
    /\ \E p \in production_set :
           get_empty_symbol \in prod_first[p] /\ nt[p.lhs].follow_set # {}
    /\ \E q \in production_set : prod_first[q] \ {get_empty_symbol} # {}
    /\ Cardinality(DOMAIN parsing_table) >= 3

----------------------------------------------------------------------------
(* Properties of the FOLLOW sets *)

\* the FOLLOW computation has started
FollowStarted ==
    \/ pc \in {"compute_follow", "verify", "verify_ll1",
               "generate_parsing_table", "done"}
    \/ pc = "failed" /\ \E A \in DOMAIN nt : nt[A].follow_set # {}

\* C6: in every state during and after the FOLLOW computation EMPTY is in
\* the follow_set of no non-terminal, synthesised ones included
C6_NoEmptyInFollow ==
    FollowStarted =>
        \A A \in DOMAIN nt : ~SymIn(get_empty_symbol, nt[A].follow_set)

\* the non-terminal at position i of p is followed by a tail whose
\* compute_substring_first holds EMPTY
NullableTail(p, i) ==
    /\ i < Len(p.rhs)
    /\ is_non_terminal(p.rhs[i])
    /\ get_empty_symbol \in compute_substring_first(nt, p, i + 1).set

\* FOLLOW has been computed through a nullable tail, in a grammar with a
\* synthesised non-terminal
C6_Witness ==
    /\ FollowStarted
    /\ \E p \in production_set :
           \E i \in 1..Len(p.rhs) :
               NullableTail(p, i) /\ nt[p.rhs[i]].follow_set # {}
    /\ \E A \in non_terminal_set :
           A.born = "rewrite" /\ nt[A].follow_set # {}

\* what the occurrence of a non-terminal at position i of p puts into its
\* FOLLOW set, given the sets F
FollowContribution(F, p, i) ==
    IF i = Len(p.rhs) THEN F[p.lhs]
    ELSE LET sigma == compute_substring_first(nt, p, i + 1).set IN
         (sigma \ {get_empty_symbol})
             \cup (IF get_empty_symbol \in sigma THEN F[p.lhs] ELSE {})

\* one application of the FOLLOW equations
FollowEquations(F) ==
    [A \in non_terminal_set |->
        (IF SymEq(A, root_symbol) THEN {get_end_symbol} ELSE {})
            \cup UNION {UNION {FollowContribution(F, p, i) :
                                   i \in get_symbol_index(p, A)} :
                            p \in production_set}]

RECURSIVE LeastFollowFix(_)
LeastFollowFix(F) ==
    LET F1 == FollowEquations(F) IN
    IF F1 = F THEN F ELSE LeastFollowFix(F1)

\* the least solution of the FOLLOW equations over the computed FIRST sets
LeastFollow == LeastFollowFix([A \in non_terminal_set |-> {}])

\* C7: when the FOLLOW loop of process_first_follow has exited, the
\* follow_sets are the least solution of the FOLLOW equations over the
\* computed FIRST sets
C7_FollowIsLeastSolution ==
    AfterFirstFollow =>
        \A A \in non_terminal_set : nt[A].follow_set = LeastFollow[A]

\* the loop has exited on a grammar where FOLLOW(p.lhs) reaches a
\* non-terminal through a nullable tail and through a last position
C7_Witness ==
    /\ pc = "verify"
    /\ get_end_symbol \in nt[root_symbol].follow_set
    /\ \E p \in production_set :
           \E i \in 1..Len(p.rhs) :
               NullableTail(p, i) /\ nt[p.lhs].follow_set # {}
    /\ \E p \in production_set :
           /\ is_non_terminal(p.rhs[Len(p.rhs)])
           /\ ~SymEq(p.lhs, root_symbol)
           /\ nt[p.lhs].follow_set \ {get_end_symbol} # {}

----------------------------------------------------------------------------
(* Properties of Production.__init__ and Production.clear *)

\* p is in the lhs_set of its left-hand side and in the rhs_set of every
\* non-terminal of its right-hand side
Registered(h, p) ==
    /\ PIn(p, h.nt[p.lhs].lhs_set)
    /\ \A i \in 1..Len(p.rhs) :
           is_non_terminal(p.rhs[i]) => PIn(p, h.nt[p.rhs[i]].rhs_set)

\* C8: between the stages, after the creations and the clears of loading
\* and of rewriting, every production of production_set is in the lhs_set
\* of its left-hand side and in the rhs_set of every non-terminal of its
\* right-hand side
C8_ProductionsAreRegistered ==
    err = "none" => \A p \in production_set : Registered(Heap, p)

\* left recursion has been rewritten: productions were cleared and created
\* on a synthesised non-terminal, which occurs in right-hand sides
C8_Witness ==
    /\ pc = "compute_first"
    /\ \E A \in non_terminal_set :
           /\ A.born = "rewrite"
           /\ nt[A].rhs_set # {}
           /\ nt[A].lhs_set # {}
    /\ \E p \in production_set : p.lhs.born = "load" /\ Len(p.rhs) = 2

\* the production p is in no set of the heap h
Retired(h, p) ==
    /\ ~PIn(p, h.production_set)
    /\ \A A \in DOMAIN h.nt :
           ~PIn(p, h.nt[A].lhs_set) /\ ~PIn(p, h.nt[A].rhs_set)

\* C9: for every live production p, one with the same non-terminal at two
\* positions included, clear completes without error and leaves p in none
\* of the three sets
C9_ClearRetires ==
    err = "none" =>
        \A p \in production_set :
            LET h == ProductionClear(Heap, p) IN
            h.err = "none" /\ Retired(h, p)

\* the heap h1 holds the same productions as the heap h
SameProductions(h, h1) ==
    /\ h1.production_set = h.production_set
    /\ \A A \in DOMAIN h.nt :
           /\ h1.nt[A].lhs_set = h.nt[A].lhs_set
           /\ h1.nt[A].rhs_set = h.nt[A].rhs_set

\* the line that process_production reads next is a body equal to a
\* production of production_set
DuplicateLine ==
    /\ pc = "process_production"
    /\ line_idx <= Len(line_list)
    /\ ~line_list[line_idx].colon
    /\ current_nt # NoneSymbol
    /\ PIn([lhs |-> current_nt,
            rhs |-> [i \in 1..Len(line_list[line_idx].names) |->
                        symbol_dict[line_list[line_idx].names[i]]]],
           production_set)

\* C10: creating a Production equal to one of production_set fails with an
\* error and leaves production_set, the lhs_set and the rhs_sets with the
\* same productions: for every production of every state between steps,
\* and for every step of process_production that reads an equal body
C10_DuplicateFailsAndChangesNothing ==
    /\ [](err = "none" =>
            \A p \in production_set :
                LET h == ProductionInit(Heap, p.lhs, p.rhs) IN
                /\ h.err = "KeyError: Production already defined"
                /\ SameProductions(Heap, h))
    /\ [][DuplicateLine =>
            /\ pc' = "failed"
            /\ err' = "KeyError: Production already defined"
            /\ production_set' = production_set
            /\ \A A \in DOMAIN nt :
                   /\ nt'[A].lhs_set = nt[A].lhs_set
                   /\ nt'[A].rhs_set = nt[A].rhs_set]_vars

\* loading has failed on a second body equal to a first one that has a
\* non-terminal in it
C10_Witness ==
    /\ pc = "failed"
    /\ err = "KeyError: Production already defined"
    /\ line_idx <= Len(line_list)
    /\ \E i \in 1..Len(line_list[line_idx].names) :
           is_non_terminal(symbol_dict[line_list[line_idx].names[i]])

----------------------------------------------------------------------------
(* Properties of the left-recursion rewriting *)

\* the step is a call of A.eliminate_left_recursion() that returns, on a
\* non-terminal A with a production A -> A gamma
Eliminates(A) ==
    /\ pc = "process_left_recursion"
    /\ A \in todo
    /\ exists_direct_left_recursion(nt, A)
    /\ err' = "none"
    /\ \/ pc' = "compute_first" /\ todo = {A}
       \/ pc' = pc /\ todo' = todo \ {A}

\* the productions that the rewriting scheme gives A and the fresh symbol
RewrittenLhs(A, fresh) ==
    {[lhs |-> A, rhs |-> p.rhs \o <<fresh>>] :
         p \in {q \in nt[A].lhs_set :
                    /\ ~SymEq(q.rhs[1], A)
                    /\ q.rhs # <<get_empty_symbol>>}}
      \cup (IF [lhs |-> A, rhs |-> <<get_empty_symbol>>] \in nt[A].lhs_set
            THEN {[lhs |-> A, rhs |-> <<fresh>>]} ELSE {})

RewrittenFresh(A, fresh) ==
    {[lhs |-> fresh, rhs |-> Tail(p.rhs) \o <<fresh>>] :
         p \in {q \in nt[A].lhs_set : SymEq(q.rhs[1], A)}}
      \cup {[lhs |-> fresh, rhs |-> <<get_empty_symbol>>]}

\* C11: when eliminate_left_recursion returns for a non-terminal A with a
\* production A -> A gamma, with the fresh symbol A': A.lhs_set is the set
\* of A -> delta A' for the former A -> delta that do not start with A and
\* are not A -> EMPTY, plus A -> A' if A -> EMPTY existed; A'.lhs_set is the
\* set of A' -> gamma A' for the former A -> A gamma, plus A' -> EMPTY; and
\* no former production of A remains in production_set
C11_RewritingScheme ==
    [][\A A \in todo :
          Eliminates(A) =>
              LET fresh == get_new_symbol(nt, A) IN
              /\ nt'[A].lhs_set = RewrittenLhs(A, fresh)
              /\ fresh \in DOMAIN nt'
              /\ nt'[fresh].lhs_set = RewrittenFresh(A, fresh)
              /\ \A p \in nt[A].lhs_set : ~PIn(p, production_set')]_vars

\* a non-terminal has been rewritten: it has a production that is its
\* fresh symbol alone, and the fresh symbol has two productions or more
C11_Witness ==
    /\ err = "none"
    /\ \E A \in non_terminal_set :
           \E fresh \in non_terminal_set :
               /\ fresh.born = "rewrite"
               /\ [lhs |-> A, rhs |-> <<fresh>>] \in nt[A].lhs_set
               /\ Cardinality(nt[fresh].lhs_set) >= 2

\* process_left_recursion has returned
AfterLeftRecursion ==
    pc \in {"compute_first", "compute_follow", "verify", "verify_ll1",
            "generate_parsing_table", "done"}

\* C12: after process_left_recursion no production of production_set has
\* its own left-hand side as its first right-hand-side symbol, the
\* productions of the synthesised non-terminals and the grammars with a
\* unit production A -> A included
C12_NoDirectLeftRecursion ==
    AfterLeftRecursion =>
        \A p \in production_set : ~SymEq(p.rhs[1], p.lhs)

----------------------------------------------------------------------------
(* Properties of the left-recursion check of verify *)

\* X has a production whose first right-hand-side symbol is the
\* non-terminal Y
FirstEdge(X, Y) ==
    \E p \in production_set :
        SymEq(p.lhs, X) /\ is_non_terminal(p.rhs[1]) /\ SymEq(p.rhs[1], Y)

RECURSIVE FirstReach(_, _)
\* the non-terminals reached from those of R over one FirstEdge or more,
\* R being the ones reached so far
FirstReach(X, R) ==
    LET R1 == R \cup {Y \in non_terminal_set :
                         FirstEdge(X, Y) \/ \E Z \in R : FirstEdge(Z, Y)}
    IN IF R1 = R THEN R ELSE FirstReach(X, R1)

\* the transitive closure of FirstEdge from X
FirstClosure(X) == FirstReach(X, {})

\* the graph of FirstEdge has a cycle
FirstCycle == \E X \in non_terminal_set : X \in FirstClosure(X)

\* C13: for a grammar that reaches verify, the left-recursion check raises
\* iff the graph of the first right-hand-side non-terminals has a cycle,
\* in whatever order verify visits the non-terminals
C13_RaisesIffCycle ==
    /\ pc \in {"verify_ll1", "generate_parsing_table", "done"} => ~FirstCycle
    /\ (pc = "failed" /\ err = "ValueError: Left recursion is detected")
           => FirstCycle
    /\ (pc = "failed" /\ err \in
            {"ValueError: Empty string in the middle of production",
             "AssertionError: len(ret) == 1",
             "AssertionError: empty symbol in follow_set",
             "ValueError: The intersection of first_set is not empty",
             "ValueError: FIRST/FOLLOW conflict",
             "KeyError: Duplicated (A, FIRST) entry",
             "KeyError: Duplicated (A, FOLLOW) entry"}) => ~FirstCycle

\* the check has raised although a non-terminal of a cycle, reached while
\* another one was in progress, has a memoised set without itself
C13_Witness ==
    /\ pc = "failed"
    /\ err = "ValueError: Left recursion is detected"
    /\ \E A \in non_terminal_set :
           /\ nt[A].first_rhs_set.built
           /\ A \in FirstClosure(A)
           /\ ~SymIn(A, nt[A].first_rhs_set.set)

\* C14: whenever build_first_rhs_set has returned for a non-terminal A, the
\* memoised A.first_rhs_set is the transitive closure, from A, of "X has a
\* production whose first right-hand-side symbol is the non-terminal Y",
\* also when A lies on a cycle of that relation
C14_FirstRhsSetIsClosure ==
    \A A \in non_terminal_set :
        nt[A].first_rhs_set.built => nt[A].first_rhs_set.set = FirstClosure(A)

----------------------------------------------------------------------------
(* More properties of the left-recursion rewriting *)

\* C15: a second run of process_left_recursion on the grammar that the
\* first run has produced creates no production, retires no production and
\* adds no non-terminal: of the calls of eliminate_left_recursion that the
\* second run makes on the symbols of non_terminal_set, none changes the
\* heap
C15_RewritingIsIdempotent ==
    AfterLeftRecursion =>
        \A A \in non_terminal_set :
            \A order \in Perms(nt[A].lhs_set) :
                LET h == eliminate_left_recursion(Heap, A, order) IN
                /\ h.err = "none"
                /\ h.production_set = production_set
                /\ h.non_terminal_set = non_terminal_set
                /\ DOMAIN h.nt = DOMAIN nt
                /\ SameProductions(Heap, h)

\* the non-terminals of non_terminal_set with an empty rhs_set
Unreferenced == {A \in non_terminal_set : nt[A].rhs_set = {}}

\* between two stages of read_file, root detection being over: before
\* process_left_recursion has called anything, or after it has returned
AfterRootSymbol ==
    \/ pc = "process_left_recursion" /\ todo = non_terminal_set
    \/ AfterLeftRecursion

\* C16: between the stages after loading, and after the left-recursion
\* rewriting in particular, exactly one non-terminal of non_terminal_set
\* has an empty rhs_set, and it is root_symbol
C16_RootIsTheOnlyUnreferenced ==
    AfterRootSymbol => Unreferenced = {root_symbol}

\* C17: between the stages, after loading and after the left-recursion
\* rewriting, terminal_set and non_terminal_set are disjoint and their
\* union is the set of the values of symbol_dict
C17_SymbolDictHoldsAllSymbols ==
    (pc = "process_root_symbol" \/ AfterRootSymbol) =>
        /\ \A t \in terminal_set : ~SymIn(t, non_terminal_set)
        /\ terminal_set \cup non_terminal_set =
               {symbol_dict[n] : n \in DOMAIN symbol_dict}

----------------------------------------------------------------------------
(* The construction on the grammar files of ScenarioGrammars *)

\* a production by its names: <<lhs name, names of rhs_list>>
NamesOfProduction(p) == <<p.lhs.name, [i \in DOMAIN p.rhs |-> p.rhs[i].name]>>
NamedProductions == {NamesOfProduction(p) : p \in production_set}
NamesIn(S) == {x.name : x \in S}
FieldsOf(name) == nt[CHOOSE A \in non_terminal_set : A.name = name]
\* the parsing table has the entry (A, x) -> production
Maps(A, x, production) ==
    /\ <<A, x>> \in DOMAIN parsing_table
    /\ NamesOfProduction(parsing_table[<<A, x>>]) = production

\* C18: the construction succeeds on 'E: E T_PLUS T | T; T: T_ID', whose
\* start symbol is directly left-recursive and occurs in no production of
\* another non-terminal: E is taken as root, the result has the productions
\* E -> T E-1, E-1 -> T_PLUS T E-1 and E-1 -> T_, FIRST(E) = {T_ID},
\* FOLLOW(E) = {T_EOF}, and the table maps (E, T_ID), (E-1, T_PLUS) and
\* (E-1, T_EOF) to them; and on 'S: S T_A | T_' it yields S -> S-1 and
\* S-1 -> T_A S-1 | T_
C18_LeftRecursiveStartIsBuilt ==
    /\ line_list = ExprLines =>
          /\ pc # "failed"
          /\ AfterRootSymbol => root_symbol.name = "E"
          /\ pc = "done" =>
                /\ NamedProductions =
                       {<<"E", <<"T", "E-1">>>>,
                        <<"E-1", <<"T_PLUS", "T", "E-1">>>>,
                        <<"E-1", <<EMPTY_SYMBOL_NAME>>>>,
                        <<"T", <<"T_ID">>>>}
                /\ NamesIn(FieldsOf("E").first_set) = {"T_ID"}
                /\ NamesIn(FieldsOf("E").follow_set) = {END_SYMBOL_NAME}
                /\ Maps("E", "T_ID", <<"E", <<"T", "E-1">>>>)
                /\ Maps("E-1", "T_PLUS", <<"E-1", <<"T_PLUS", "T", "E-1">>>>)
                /\ Maps("E-1", END_SYMBOL_NAME, <<"E-1", <<EMPTY_SYMBOL_NAME>>>>)
    /\ line_list = ListLines =>
          /\ pc # "failed"
          /\ AfterLeftRecursion =>
                NamedProductions =
                    {<<"S", <<"S-1">>>>,
                     <<"S-1", <<"T_A", "S-1">>>>,
                     <<"S-1", <<EMPTY_SYMBOL_NAME>>>>}

\* C19: the construction on 'S: A T_X; A: S T_Y', whose two non-terminals
\* are left-recursive through each other, does not succeed, and it fails
\* with the left-recursion error of verify and with no other error
C19_IndirectLeftRecursionIsReported ==
    line_list = IndirectLines =>
        /\ pc # "done"
        /\ pc = "failed" => err = "ValueError: Left recursion is detected"

\* some declaration of the file has no body line before the next
\* declaration or the end of the file
HasDeclarationWithoutBody(lines) ==
    \E i \in DOMAIN lines :
        /\ lines[i].colon
        /\ i = Len(lines) \/ lines[i + 1].colon

\* process_symbol and process_production have returned
Loaded == pc = "process_root_symbol"

\* C20: when some declaration has no body line before the next declaration
\* or the end of the input, the last declaration included, loading does not
\* succeed and fails with the error that a production has no body; hence
\* after a successful load every declared non-terminal has a non-empty
\* lhs_set
C20_DeclarationWithoutBodyFails ==
    /\ HasDeclarationWithoutBody(line_list) =>
          /\ ~Loaded
          /\ pc = "failed" =>
                err = "ValueError: Production does not have a body"
    /\ Loaded => \A A \in non_terminal_set : nt[A].lhs_set # {}

\* the name T_EOF occurs in the file, in a body or as a declaration
UsesEndName(lines) ==
    \E i \in DOMAIN lines :
        \E j \in DOMAIN lines[i].names : lines[i].names[j] = END_SYMBOL_NAME

\* C21: a grammar in which the reserved name T_EOF occurs, as a token of a
\* body or as a declared non-terminal, is rejected while loading, so no
\* production of a generator that was constructed has END in its rhs_list
C21_EndNameIsRejected ==
    /\ UsesEndName(line_list) =>
          pc \in {"process_symbol", "process_production", "failed"}
    /\ pc = "done" =>
          \A p \in production_set :
              \A i \in DOMAIN p.rhs : ~SymEq(p.rhs[i], get_end_symbol)

----------------------------------------------------------------------------
(* The order of the stages of read_file *)

\* the position of a stage in read_file; process_first_follow is the two
\* loops compute_first and compute_follow, verify is its left-recursion
\* check and its LL(1) conditions
StageRank(stage) ==
    CASE stage = "process_symbol" -> 1
      [] stage = "process_production" -> 2
      [] stage = "process_root_symbol" -> 3
      [] stage = "process_left_recursion" -> 4
      [] stage = "compute_first" -> 5
      [] stage = "compute_follow" -> 6
      [] stage = "verify" -> 7
      [] stage = "verify_ll1" -> 8
      [] stage = "generate_parsing_table" -> 9
      [] stage = "done" -> 10
      [] stage = "failed" -> 11

\* the errors that generate_parsing_table raises
TableErrors ==
    {"KeyError: Duplicated (A, FIRST) entry",
     "KeyError: Duplicated (A, FOLLOW) entry"}

\* C22: the stages run in the order symbol pass, production pass, root
\* detection, left-recursion rewriting, FIRST/FOLLOW, verify, table
\* generation, each at most once (a stage that was left is never entered
\* again and none is skipped); as soon as a stage raises, nothing runs any
\* more, so parsing_table is empty whenever the construction has failed at
\* or before verify
C22_StagesRunInOrder ==
    /\ [][/\ pc # "failed"
          /\ pc' # pc =>
                \/ pc' = "failed" /\ err' # "none"
                \/ StageRank(pc') = StageRank(pc) + 1 /\ err' = "none"]_vars
    /\ [](err # "none" <=> pc = "failed")
    /\ []((pc = "failed" /\ err \notin TableErrors) => parsing_table = <<>>)
    /\ [](StageRank(pc) < 9 => parsing_table = <<>>)

\* the construction has failed in verify, the last stage before the table
\* generation, and there is no table
C22_Witness ==
    /\ pc = "failed"
    /\ err \in {"ValueError: The intersection of first_set is not empty",
                "ValueError: FIRST/FOLLOW conflict"}
    /\ \A A \in non_terminal_set : nt[A].first_set # {}
    /\ parsing_table = <<>>

----------------------------------------------------------------------------
(* The FOLLOW computation on unusual productions *)

\* some production holds a non-terminal at several positions of rhs_list
SomeRepeatedSymbol ==
    \E p \in production_set :
        \E A \in non_terminal_set : Cardinality(get_symbol_index(p, A)) > 1

\* C24: compute_follow handles a production in which a non-terminal occurs
\* at several positions of the right-hand side, without failing: the
\* construction of a grammar with such a production does not end in the
\* assertion on the number of positions
C24_RepeatedSymbolIsHandled ==
    SomeRepeatedSymbol =>
        ~(pc = "failed" /\ err = "AssertionError: len(index_list) == 1")

\* C27: for a grammar that has passed loading, root detection and the
\* left-recursion rewriting, the assertion of compute_substring_first that
\* every non-terminal it scans has a non-empty first_set never fails while
\* compute_follow runs
C27_SubstringFirstIsDefined ==
    ~(pc = "failed" /\ err = "AssertionError: len(rhs.first_set) > 0")

----------------------------------------------------------------------------
(* Termination of process_first_follow *)

InFirstFollow == pc \in {"compute_first", "compute_follow"}

RECURSIVE SumOver(_, _)
\* the sum of the vector count over the symbols of S
SumOver(count, S) ==
    IF S = {} THEN 0
    ELSE LET o == CHOOSE x \in S : TRUE IN count[o] + SumOver(count, S \ {o})

\* what is left to do in the loop that runs: the room that the sets of the
\* last comparison still have below their bound, and within the round the
\* non-terminals that have not been visited
Remaining ==
    (Cardinality(non_terminal_set) * (Cardinality(terminal_set) + 2)
        - SumOver(count_list, non_terminal_set))
      * (Cardinality(non_terminal_set) + 1)
    + Cardinality(todo)

\* C25: for every grammar that reaches process_first_follow both outer
\* loops terminate: a step of a loop is always possible while it runs and
\* every step that stays in the loop decreases Remaining, which is never
\* negative (a round visits every non-terminal once, and a new round
\* starts only when the sizes have grown); the sets only grow and they are
\* bounded by the terminals (with the empty symbol in first_set and END in
\* follow_set)
C25_FirstFollowLoopsTerminate ==
    /\ [](InFirstFollow => todo # {} /\ Remaining >= 0)
    /\ [][(InFirstFollow /\ pc' = pc) => Remaining' < Remaining]_vars
    /\ [][InFirstFollow =>
            \A A \in non_terminal_set :
                /\ nt[A].first_set \subseteq nt'[A].first_set
                /\ nt[A].follow_set \subseteq nt'[A].follow_set]_vars
    /\ [](\A A \in non_terminal_set :
            /\ nt[A].first_set \subseteq terminal_set \cup {get_empty_symbol}
            /\ nt[A].follow_set \subseteq terminal_set \cup {get_end_symbol})

\* both loops have been left with sets that have grown
C25_Witness ==
    /\ pc = "verify"
    /\ \E A \in non_terminal_set :
          /\ Cardinality(nt[A].first_set) >= 2
          /\ nt[A].follow_set # {}
          /\ A # root_symbol

----------------------------------------------------------------------------
(* The symbol that the rewriting synthesises *)

\* C26: the non-terminal that get_new_symbol synthesises in a rewriting is
\* fresh: its name differs from the name of every symbol that is in
\* terminal_set or non_terminal_set at that moment, also when the file
\* itself declares or uses a symbol with such a name; so after the rewrite
\* non_terminal_set holds the very object whose lhs_set has received the
\* new productions
C26_NewSymbolIsFresh ==
    [][\A A \in todo :
          Eliminates(A) =>
             LET new_symbol == get_new_symbol(nt, A) IN
             /\ \A x \in terminal_set \cup non_terminal_set :
                    x.name # new_symbol.name
             /\ new_symbol \in non_terminal_set'
             /\ \A p \in production_set' :
                    p.lhs.name = new_symbol.name => p \in nt'[new_symbol].lhs_set
       ]_vars

----------------------------------------------------------------------------
(* What the rewriting leaves alone *)

\* B has no production that starts with B
NoOwnHead(B) == \A p \in nt[B].lhs_set : ~SymEq(p.rhs[1], B)

\* C29: the left-recursion rewriting leaves untouched every non-terminal B
\* that has no production starting with B: whatever non-terminal a step of
\* process_left_recursion rewrites, B.lhs_set, B.new_name_index and the
\* membership of B's productions in production_set stay as they are; and
\* eliminate_left_recursion called on such a B changes no state at all
C29_RewritingLeavesOthersAlone ==
    /\ [][pc = "process_left_recursion" =>
            \A B \in non_terminal_set :
                NoOwnHead(B) =>
                    /\ nt'[B].lhs_set = nt[B].lhs_set
                    /\ nt'[B].new_name_index = nt[B].new_name_index
                    /\ \A p \in nt[B].lhs_set :
                           PIn(p, production_set) <=> PIn(p, production_set')
         ]_vars
    /\ [](pc = "process_left_recursion" =>
            \A B \in non_terminal_set :
                NoOwnHead(B) =>
                    \A order \in Perms(nt[B].lhs_set) :
                        eliminate_left_recursion(Heap, B, order) = Heap)

\* another non-terminal has been rewritten, and B, which had no production
\* starting with B and is referred to by one of the new productions, still
\* has its productions
C29_Witness ==
    /\ AfterLeftRecursion
    /\ \E B, fresh \in non_terminal_set :
          /\ fresh.born = "rewrite"
          /\ B.born = "load"
          /\ B # root_symbol
          /\ nt[B].new_name_index = 1
          /\ nt[B].lhs_set # {}
          /\ \E p \in nt[fresh].lhs_set : \E i \in DOMAIN p.rhs : p.rhs[i] = B

----------------------------------------------------------------------------
(* Independence of the order in which the sets are iterated: a run is     *)
(* compared with the run that iterates every set in one chosen order.     *)

\* the order in which the reference run iterates the set S
SomeOrder(S) == CHOOSE order \in Perms(S) : TRUE
SomeOrders(F) == [o \in DOMAIN F |-> SomeOrder(F[o])]

RECURSIVE LoadProductions(_, _, _, _)
\* the productions of the lines from line i, for a file that loads
LoadProductions(h, lines, i, current) ==
    IF i > Len(lines) THEN h
    ELSE IF lines[i].colon
         THEN LoadProductions(h, lines, i + 1, symbol_dict[lines[i].names[1]])
         ELSE LoadProductions(
                  ProductionInit(h, current,
                      [j \in 1..Len(lines[i].names) |->
                          symbol_dict[lines[i].names[j]]]),
                  lines, i + 1, current)

\* the heap when process_production has returned
LoadedHeap ==
    LET symbols == {symbol_dict[n] : n \in DOMAIN symbol_dict}
        nts == {x \in symbols : is_non_terminal(x)}
    IN LoadProductions(
           [nt |-> [o \in nts |-> NewFields], production_set |-> {},
            prod_first |-> <<>>, non_terminal_set |-> nts,
            terminal_set |-> symbols \ nts, err |-> "none"],
           line_list, 1, NoneSymbol)

RECURSIVE RewriteInOrder(_, _)
\* process_left_recursion on the heap h, the symbols of temp being taken
\* in one order
RewriteInOrder(h, temp) ==
    IF temp = {} \/ h.err # "none" THEN h
    ELSE LET symbol == CHOOSE x \in temp : TRUE IN
         RewriteInOrder(
             eliminate_left_recursion(h, symbol, SomeOrder(h.nt[symbol].lhs_set)),
             temp \ {symbol})

\* the heap when the reference run has left process_left_recursion
RewrittenHeap == LET h == LoadedHeap IN RewriteInOrder(h, h.non_terminal_set)

\* the productions and the references of a heap
SameGrammar(h) ==
    /\ production_set = h.production_set
    /\ non_terminal_set = h.non_terminal_set
    /\ terminal_set = h.terminal_set
    /\ DOMAIN nt = DOMAIN h.nt
    /\ \A A \in DOMAIN nt :
          /\ nt[A].lhs_set = h.nt[A].lhs_set
          /\ nt[A].rhs_set = h.nt[A].rhs_set
          /\ nt[A].new_name_index = h.nt[A].new_name_index

\* the run has failed in process_left_recursion
FailedInRewriting ==
    /\ pc = "failed"
    /\ root_symbol # NoneSymbol
    /\ err \in {"KeyError: Production already defined",
                "KeyError: rhs_set.remove", "KeyError: lhs_set.remove",
                "KeyError: production_set.remove"}

RECURSIVE FirstRound(_, _)
\* one round of the FIRST loop: compute_first([]) on the symbols of todo
FirstRound(st, symbols) ==
    IF symbols = {} THEN st
    ELSE LET symbol == CHOOSE x \in symbols : TRUE
             ord == SomeOrders([o \in DOMAIN st.nt |-> st.nt[o].lhs_set])
         IN FirstRound(compute_first(st, symbol, {}, ord), symbols \ {symbol})

RECURSIVE FirstRounds(_, _, _)
\* the FIRST loop of process_first_follow
FirstRounds(st, nts, count) ==
    LET st1 == FirstRound([st EXCEPT !.nt = ClearResultAvailable(@, nts)], nts)
        t == FirstLengths(st1.nt, nts)
    IN IF t = count THEN st1 ELSE FirstRounds(st1, nts, t)

RECURSIVE FollowRound(_, _)
\* one round of the FOLLOW loop
FollowRound(st, symbols) ==
    IF symbols = {} \/ st.err # "none" THEN st
    ELSE LET symbol == CHOOSE x \in symbols : TRUE
             ord == SomeOrders([o \in DOMAIN st.nt |-> st.nt[o].rhs_set])
         IN FollowRound(compute_follow(st, symbol, {}, ord), symbols \ {symbol})

RECURSIVE FollowRounds(_, _, _)
\* the FOLLOW loop of process_first_follow
FollowRounds(st, nts, count) ==
    LET st1 == FollowRound([st EXCEPT !.nt = ClearResultAvailable(@, nts)], nts)
        t == FollowLengths(st1.nt, nts)
    IN IF st1.err # "none" \/ t = count THEN st1 ELSE FollowRounds(st1, nts, t)

\* the sets when the reference run, which has left process_left_recursion
\* with the heap h, has left process_first_follow
FirstFollowOf(h) ==
    LET nts == h.non_terminal_set
        st0 == [nt |-> h.nt, prod_first |-> h.prod_first, err |-> "none"]
        st1 == FirstRounds(st0, nts, FirstLengths(st0.nt, nts))
        st2 == [st1 EXCEPT !.nt[root_symbol].follow_set =
                               @ \cup {get_end_symbol}]
    IN FollowRounds(st2, nts, FollowLengths(st2.nt, nts))

\* the run has failed in the FOLLOW loop
FailedInFollow ==
    /\ pc = "failed"
    /\ err \in {"AssertionError: len(index_list) == 1",
                "AssertionError: len(rhs.first_set) > 0"}

\* the run has left process_first_follow
AfterFirstFollowLoops ==
    pc \in {"verify", "verify_ll1", "generate_parsing_table", "done"}

\* the run has failed in verify or in generate_parsing_table
FailedAfterFirstFollow ==
    /\ pc = "failed"
    /\ err \in {"ValueError: Left recursion is detected",
                "ValueError: Empty string in the middle of production",
                "AssertionError: len(ret) == 1",
                "AssertionError: empty symbol in follow_set",
                "ValueError: The intersection of first_set is not empty",
                "ValueError: FIRST/FOLLOW conflict"} \cup TableErrors

\* the FIRST and FOLLOW sets of the state st
SameSets(st) ==
    /\ prod_first = st.prod_first
    /\ \A A \in non_terminal_set :
          /\ nt[A].first_set = st.nt[A].first_set
          /\ nt[A].follow_set = st.nt[A].follow_set

\* the entries that generate_parsing_table makes for the production p:
\* <<clause, name of the terminal>>
EntriesOf(p) ==
    {<<"FIRST", x.name>> : x \in {y \in prod_first[p] : ~SymEq(y, get_empty_symbol)}}
    \cup (IF get_empty_symbol \in prod_first[p]
          THEN {<<"FOLLOW", x.name>> : x \in nt[p.lhs].follow_set}
          ELSE {})

\* two entries of the table have the same key
TableConflict ==
    \E p, q \in production_set :
        \E e \in EntriesOf(p), f \in EntriesOf(q) :
            /\ p.lhs.name = q.lhs.name
            /\ e[2] = f[2]
            /\ <<p, e>> # <<q, f>>

\* the table of the sets, when no two entries have the same key
TableOfSets ==
    LET keys == UNION {{<<p.lhs.name, e[2]>> : e \in EntriesOf(p)}
                       : p \in production_set}
    IN [pair \in keys |->
           CHOOSE p \in production_set :
               /\ p.lhs.name = pair[1]
               /\ \E e \in EntriesOf(p) : e[2] = pair[2]]

\* what makes verify or generate_parsing_table raise, in terms of the
\* productions and of the FIRST and FOLLOW sets
Rejected ==
    \/ FirstCycle
    \/ EmptyInTheMiddle \/ AppearsTwice \/ EmptyInFollow
    \/ FirstFirstConflict \/ FirstFollowConflict
    \/ TableConflict

\* C28: the outcome of the construction does not depend on the order in
\* which the sets are iterated: every run of a grammar fails in the stage
\* in which the run that takes one chosen order fails, or succeeds as it
\* does, with the same productions, the same first_set and follow_set of
\* every non-terminal, the same first_set of every production, and with
\* the parsing table that these sets determine
C28_OutcomeIsOrderIndependent ==
    /\ FailedInRewriting => RewrittenHeap.err # "none"
    /\ (pc = "compute_first" \/ FailedInFollow) =>
          RewrittenHeap.err = "none" /\ SameGrammar(RewrittenHeap)
    /\ FailedInFollow => FirstFollowOf(RewrittenHeap).err # "none"
    /\ (pc \in {"verify_ll1", "done"} \/ FailedAfterFirstFollow) =>
          LET h == RewrittenHeap
              st == FirstFollowOf(h)
          IN /\ h.err = "none" /\ SameGrammar(h)
             /\ st.err = "none" /\ SameSets(st)
    /\ FailedAfterFirstFollow => Rejected
    /\ pc = "done" => ~Rejected /\ parsing_table = TableOfSets

\* a construction that has succeeded on a grammar in which a non-terminal
\* was rewritten and several productions refer to the same non-terminal,
\* so that the sets were iterated in several orders
C28_Witness ==
    /\ pc = "done"
    /\ \E fresh \in non_terminal_set : fresh.born = "rewrite"
    /\ \E A \in non_terminal_set :
          Cardinality(nt[A].rhs_set) >= 2 /\ Cardinality(nt[A].lhs_set) >= 2

----------------------------------------------------------------------------
(* The demo driver *)

\* C23: the demo driver finishes without raising only when the stack is
\* empty and the current input position holds END, every token before END
\* having been matched; an input that has tokens left when the stack
\* becomes empty is not accepted
C23_AcceptsOnlyAtEnd ==
    pc = "accepted" =>
        /\ stack = <<>>
        /\ demo_index = Len(test_str) - 1
        /\ SymEq(test_str[demo_index + 1], get_end_symbol)

\* C30: for every grammar on which the construction has succeeded and
\* every token sequence ending in END, the loop of the demo driver
\* terminates, with an empty stack or with an error
C30_DemoTerminates ==
    (pc = "demo") ~> (pc \in {"accepted", "demo_failed"})

====
